---- MODULE Spec2Model ----
(***************************************************************************)
(* State-machine model of src/ultimate_platform.py: the fingerprint cache  *)
(* (get_cache / set_cache), the project state store (ProjectState.save /   *)
(* load over the sqlite table `projects`), the progress tracker            *)
(* (progress_store) and the generation pipeline (ProjectGen.run, bg_gen,   *)
(* api_gen, api_prog).                                                     *)
(*                                                                         *)
(* Python objects that are shared by reference (the result dict of a run)  *)
(* are modelled with an identity: the dict that run thread t builds is     *)
(* object t of the heap `results`; 0 stands for None.                      *)
(***************************************************************************)
EXTENDS Integers, Sequences, FiniteSets, TLC

VARIABLES
    CACHE_ENABLED,   \* Config.CACHE_ENABLED: fixed for the life of the process
    model_mode,      \* how the external model answers during this execution
    now,             \* the wall clock read by time.time() / datetime.now()
    ticks,           \* how many times the clock has advanced (bounds the model)
    cache_store,     \* the module-level dict cache_store: key -> (d, t) or None
    progress_store,  \* the module-level dict progress_store: sid -> record
    db,              \* the sqlite table projects: id -> row
    results,         \* heap of result dicts, one per run thread (object identity)
    pc,              \* position of each run thread / direct caller
    th,              \* locals of each run thread / direct caller
    nextTok,         \* number of ProjectState.save calls issued by direct callers
    op               \* the last operation performed and what it returned

vars == <<CACHE_ENABLED, model_mode, now, ticks, cache_store, progress_store, db, results,
          pc, th, nextTok, op>>

----------------------------------------------------------------------------
(* Program constants *)

CACHE_TTL == 3600

HISTORY_CAP == 10

TOTAL_STEPS == 7

----------------------------------------------------------------------------
(* Bounds of the model *)

NumThreads == 2

CacheMaxTicks == 4

StoreMaxTicks == 2

MaxTicks == 1

MaxSaves == 11

MaxOverlapSaves == 2

----------------------------------------------------------------------------
(* Value domains *)

Threads == 1..NumThreads

None == 0

Reqs == {"Build a todo list app", "Write a diary"}

(* project ids a client supplies *)
ProjIds == {<<"id", "p1">>}

(* no project id: None or the empty string, both falsy at lines 749 and 785 *)
NoProjId == <<>>

Sids == {"s1", "s2"}

Min(a, b) == IF a < b THEN a ELSE b

Max(a, b) == IF a > b THEN a ELSE b

(* d restricted to the keys in S *)
Restrict(f, S) == [x \in S |-> f[x]]

(* the dict f after f[k] = v *)
DictSet(f, k, v) == [x \in (DOMAIN f) \cup {k} |-> IF x = k THEN v ELSE f[x]]

(* the dict f after del f[k] *)
DictDel(f, k) == Restrict(f, (DOMAIN f) \ {k})

----------------------------------------------------------------------------
(* Fingerprint cache: cache_key, get_cache, set_cache *)

(* hashlib.sha256(req.encode()).hexdigest(): a deterministic function of the
   raw text, distinct texts giving distinct digests *)
cache_key(req) == <<"sha256", req>>

Keys == {cache_key(r) : r \in Reqs}

(* the value None stored by set_cache when caching is disabled *)
NoneEntry == [isNone |-> TRUE, d |-> None, t |-> 0]

(* the tuple (d, time.time()) *)
Entry(d, t) == [isNone |-> FALSE, d |-> d, t |-> t]

(* line 179: not Config.CACHE_ENABLED or k not in cache_store *)
CacheMiss(k) == (~CACHE_ENABLED) \/ k \notin DOMAIN cache_store

(* line 181 with <= in place of <: an entry is still live at the age of the TTL *)
CacheLiveInclusive(t, clock) == clock - t <= CACHE_TTL

(* line 181: time.time() - t < Config.CACHE_TTL *)
CacheLive(t, clock) == clock - t < CACHE_TTL

(* what get_cache(k) returns *)
get_cache_ret(k) ==
    IF CacheMiss(k) THEN None
    ELSE IF CacheLive(cache_store[k].t, now) THEN cache_store[k].d
    ELSE None

(* cache_store after get_cache(k) *)
get_cache_store(k) ==
    IF CacheMiss(k) THEN cache_store
    ELSE IF CacheLive(cache_store[k].t, now) THEN cache_store
    ELSE DictDel(cache_store, k)

(* cache_store after set_cache(k, d): the conditional expression binds looser
   than the assignment's right-hand side, so the key is always assigned *)
set_cache_store(k, d) ==
    DictSet(cache_store, k, IF CACHE_ENABLED THEN Entry(d, now) ELSE NoneEntry)

----------------------------------------------------------------------------
(* Project state store: the sqlite table and ProjectState.save / load *)

(* json.dumps(x): the TEXT a column holds.  Every value the store serialises
   is a str or a list of str (re.findall with one group), or a list of dicts
   of those, which JSON represents exactly. *)
json_dumps(x) == [json |-> x]

(* json.loads(s) *)
json_loads(s) == s.json

(* line 121: the dict appended to the history *)
Revision(ts, code, variables, functions) ==
    [timestamp |-> ts, code |-> code, variables |-> variables, functions |-> functions]

(* history[-n:] *)
LastN(h, n) == IF Len(h) <= n THEN h ELSE SubSeq(h, Len(h) - n + 1, Len(h))

(* line 122 with history[-11:]: one revision more than the cap is kept *)
TruncateLate(h) == LastN(h, HISTORY_CAP + 1)

(* line 122: history[-10:] *)
Truncate(h) == LastN(h, HISTORY_CAP)

(* lines 118-120: SELECT history FROM projects WHERE id=?; [] when no row *)
SelectHistory(pid) == IF pid \in DOMAIN db THEN json_loads(db[pid].history) ELSE <<>>

(* lines 121-122 with history.insert(0, {...}) in place of append: the new
   revision is put first *)
AppendedHistoryFront(h, ts, code, variables, functions) ==
    Truncate(<<Revision(ts, code, variables, functions)>> \o h)

(* lines 121-122: history.append({...}); history = history[-10:] *)
AppendedHistory(h, ts, code, variables, functions) ==
    Truncate(Append(h, Revision(ts, code, variables, functions)))

(* lines 124-125 as INSERT OR IGNORE followed by an UPDATE of history and
   updated_at only: an existing row keeps its code and identifier columns *)
RowKeepsColumns(pid, name, code, variables, functions, history, ts) ==
    IF pid \in DOMAIN db
    THEN [db[pid] EXCEPT !.history = json_dumps(history), !.updated_at = ts]
    ELSE [id |-> pid, name |-> name, code |-> code,
          variables |-> json_dumps(variables), functions |-> json_dumps(functions),
          history |-> json_dumps(history), created_at |-> ts, updated_at |-> ts]

(* lines 124-125: the tuple bound to INSERT OR REPLACE; both time columns are
   bound to the same `now` *)
Row(pid, name, code, variables, functions, history, ts) ==
    [id |-> pid, name |-> name, code |-> code,
     variables |-> json_dumps(variables), functions |-> json_dumps(functions),
     history |-> json_dumps(history), created_at |-> ts, updated_at |-> ts]

(* lines 136-141: what ProjectState.load(pid) returns; None when no row *)
NoState == [found |-> FALSE]

load(pid) ==
    IF pid \notin DOMAIN db THEN NoState
    ELSE [found |-> TRUE, id |-> db[pid].id, name |-> db[pid].name, code |-> db[pid].code,
          variables |-> json_loads(db[pid].variables),
          functions |-> json_loads(db[pid].functions),
          history |-> json_loads(db[pid].history),
          created_at |-> db[pid].created_at, updated_at |-> db[pid].updated_at]

----------------------------------------------------------------------------
(* Threads: the background threads started by api_gen, and (in the store
   specifications) direct callers of ProjectState.save *)

(* locals of a thread that has not started *)
ThreadInit ==
    [sid |-> "", req |-> "", proj_id |-> NoProjId, skip_tests |-> TRUE,
     cached |-> None, proj_state |-> NoState,
     analysis |-> [wellFormed |-> FALSE, hasFeatures |-> FALSE],
     codes |-> <<>>, i |-> 0,
     name |-> "", code |-> <<>>, variables |-> <<>>, functions |-> <<>>,
     save_now |-> 0, history |-> <<>>, retpc |-> "idle",
     ret |-> None, model_calls |-> 0, deploy_calls |-> 0, db_writes |-> 0,
     files_written |-> FALSE, calls |-> 0, deploy_url |-> "", put_at |-> 0,
     get_k |-> <<>>, ctxs |-> <<>>, hooks |-> <<>>, arg_proj_id |-> NoProjId]

(* The external model, as met by every call of one execution: there is no
   usable client ("none": no call is made), the call raises or its answer does
   not parse ("fail"), it answers well ("ok"), or it answers JSON that parses
   but lacks 'files' ("malformed"), lacks 'features' ("nofeatures"), or lists
   files none of which is Code.js ("nocode"). *)
ModelModes == {"none", "fail", "ok", "malformed", "nofeatures", "nocode"}

(* no operation yet *)
NoOp == [name |-> "none"]

(* a step of a thread, which answers no request *)
ThreadStep == [name |-> "thread"]

InitCommon ==
    /\ now = 0
    /\ ticks = 0
    /\ cache_store = <<>>
    /\ progress_store = <<>>
    /\ db = <<>>
    /\ results = [t \in Threads |-> [made |-> FALSE]]
    /\ pc = [t \in Threads |-> "idle"]
    /\ th = [t \in Threads |-> ThreadInit]
    /\ nextTok = [p \in ProjIds |-> 0]
    /\ op = NoOp

(* time passes: the clock advances by d *)
Tick(d, bound) ==
    /\ ticks < bound
    /\ now' = now + d
    /\ ticks' = ticks + 1
    /\ op' = [name |-> "tick"]
    /\ UNCHANGED <<CACHE_ENABLED, model_mode, cache_store, progress_store, db, results, pc, th, nextTok>>

----------------------------------------------------------------------------
(* The cache on its own: calls of get_cache and set_cache *)

(* a call get_cache(k) *)
CacheGet(k) ==
    /\ cache_store' = get_cache_store(k)
    /\ op' = [name |-> "get", k |-> k, ret |-> get_cache_ret(k)]
    /\ UNCHANGED <<CACHE_ENABLED, model_mode, now, ticks, progress_store, db, results, pc, th, nextTok>>

(* a call set_cache(k, d) *)
CacheSet(k, d) ==
    /\ cache_store' = set_cache_store(k, d)
    /\ op' = [name |-> "set", k |-> k, d |-> d]
    /\ UNCHANGED <<CACHE_ENABLED, model_mode, now, ticks, progress_store, db, results, pc, th, nextTok>>

(* the clock of the cache specification: steps of one second and of one second
   less than the TTL, so that both sides of the expiry boundary are reached *)
CacheTick == \E d \in {1, CACHE_TTL - 1} : Tick(d, CacheMaxTicks)

(* the cache calls never reach the model client *)
InitCache == InitCommon /\ CACHE_ENABLED \in BOOLEAN /\ model_mode = "none"

NextCache ==
    \/ \E k \in Keys : CacheGet(k)
    \/ \E k \in Keys, d \in Threads : CacheSet(k, d)
    \/ CacheTick

SpecCache == InitCache /\ [][NextCache]_vars

(* get_cache as the interpreter runs it in a thread: the membership test of
   line 179, the subscript of line 180 with the clock read of line 181, and
   the del of line 182 are separate steps, between which other threads run *)

(* line 179: if not Config.CACHE_ENABLED or k not in cache_store: return None *)
GetCheck(t, k) ==
    /\ pc[t] = "idle"
    /\ IF CacheMiss(k)
       THEN /\ op' = [name |-> "get_cache", k |-> k, ret |-> None]
            /\ UNCHANGED <<pc, th>>
       ELSE /\ pc' = [pc EXCEPT ![t] = "get_read"]
            /\ th' = [th EXCEPT ![t].get_k = k]
            /\ op' = ThreadStep
    /\ UNCHANGED <<CACHE_ENABLED, model_mode, now, ticks, cache_store, progress_store, db, results, nextTok>>

(* lines 180-181: d, t = cache_store[k] raises KeyError when the key has gone;
   if time.time() - t < Config.CACHE_TTL: return d *)
GetRead(t) ==
    /\ pc[t] = "get_read"
    /\ LET k == th[t].get_k IN
       IF k \notin DOMAIN cache_store
       THEN /\ op' = [name |-> "get_cache", k |-> k, ret |-> None, raised |-> "KeyError"]
            /\ pc' = [pc EXCEPT ![t] = "idle"]
            /\ th' = [th EXCEPT ![t] = ThreadInit]
       ELSE IF CacheLive(cache_store[k].t, now)
       THEN /\ op' = [name |-> "get_cache", k |-> k, ret |-> cache_store[k].d]
            /\ pc' = [pc EXCEPT ![t] = "idle"]
            /\ th' = [th EXCEPT ![t] = ThreadInit]
       ELSE /\ op' = ThreadStep
            /\ pc' = [pc EXCEPT ![t] = "get_del"]
            /\ th' = th
    /\ UNCHANGED <<CACHE_ENABLED, model_mode, now, ticks, cache_store, progress_store, db, results, nextTok>>

(* lines 182-183: del cache_store[k] raises KeyError when the key has gone;
   return None *)
GetDel(t) ==
    /\ pc[t] = "get_del"
    /\ LET k == th[t].get_k IN
       IF k \notin DOMAIN cache_store
       THEN /\ op' = [name |-> "get_cache", k |-> k, ret |-> None, raised |-> "KeyError"]
            /\ cache_store' = cache_store
       ELSE /\ op' = [name |-> "get_cache", k |-> k, ret |-> None]
            /\ cache_store' = DictDel(cache_store, k)
    /\ pc' = [pc EXCEPT ![t] = "idle"]
    /\ th' = [th EXCEPT ![t] = ThreadInit]
    /\ UNCHANGED <<CACHE_ENABLED, model_mode, now, ticks, progress_store, db, results, nextTok>>

(* threads that call get_cache and set_cache concurrently; set_cache is the
   single dict store of line 184 *)
NextCacheConc ==
    \/ \E t \in Threads, k \in Keys : GetCheck(t, k)
    \/ \E t \in Threads : GetRead(t)
    \/ \E t \in Threads : GetDel(t)
    \/ \E k \in Keys, d \in Threads : CacheSet(k, d)
    \/ CacheTick

SpecCacheConc == InitCache /\ [][NextCacheConc]_vars

----------------------------------------------------------------------------
(* The store on its own: calls of ProjectState.save and ProjectState.load.
   The n-th call for a project id passes values that identify it: code n,
   variables <<"v", n>> and functions <<"f", n>>. *)

TokVariables(n) == <<"v", n>>

TokFunctions(n) == <<"f", n>>

(* a caller enters ProjectState.save(pid, name, code, vars, funcs); callers
   other than the first issue at most MaxOverlapSaves calls each *)
CallSave(t, pid) ==
    /\ pc[t] = "idle"
    /\ nextTok[pid] < MaxSaves
    /\ t = 1 \/ th[t].calls < MaxOverlapSaves
    /\ nextTok' = [nextTok EXCEPT ![pid] = @ + 1]
    /\ th' = [th EXCEPT ![t].proj_id = pid, ![t].name = "proj",
                        ![t].code = nextTok[pid] + 1,
                        ![t].variables = TokVariables(nextTok[pid] + 1),
                        ![t].functions = TokFunctions(nextTok[pid] + 1),
                        ![t].retpc = "idle",
                        ![t].calls = IF t = 1 THEN 0 ELSE @ + 1]
    /\ pc' = [pc EXCEPT ![t] = "save_select"]
    /\ op' = ThreadStep
    /\ UNCHANGED <<CACHE_ENABLED, model_mode, now, ticks, cache_store, progress_store, db, results>>

(* lines 114-120: connect, now = datetime.now().isoformat(), SELECT history *)
SaveSelect(t) ==
    /\ pc[t] = "save_select"
    /\ th' = [th EXCEPT ![t].save_now = now, ![t].history = SelectHistory(th[t].proj_id)]
    /\ pc' = [pc EXCEPT ![t] = "save_replace"]
    /\ op' = ThreadStep
    /\ UNCHANGED <<CACHE_ENABLED, model_mode, now, ticks, cache_store, progress_store, db, results, nextTok>>

(* lines 121-127: append, truncate, INSERT OR REPLACE, commit, close *)
SaveReplace(t) ==
    /\ pc[t] = "save_replace"
    /\ db' = DictSet(db, th[t].proj_id,
                Row(th[t].proj_id, th[t].name, th[t].code, th[t].variables, th[t].functions,
                    AppendedHistory(th[t].history, th[t].save_now, th[t].code,
                                    th[t].variables, th[t].functions),
                    th[t].save_now))
    /\ th' = [th EXCEPT ![t] = IF th[t].retpc = "idle"
                                THEN [ThreadInit EXCEPT !.calls = th[t].calls]
                                ELSE [th[t] EXCEPT !.history = <<>>, !.save_now = 0,
                                                   !.db_writes = 1]]
    /\ pc' = [pc EXCEPT ![t] = th[t].retpc]
    /\ op' = ThreadStep
    /\ UNCHANGED <<CACHE_ENABLED, model_mode, now, ticks, cache_store, progress_store, results, nextTok>>

(* a call ProjectState.load(pid) *)
Load(pid) ==
    /\ op' = [name |-> "load", pid |-> pid, ret |-> load(pid)]
    /\ UNCHANGED <<CACHE_ENABLED, model_mode, now, ticks, cache_store, progress_store, db, results,
                   pc, th, nextTok>>

StoreTick == Tick(1, StoreMaxTicks)

(* the store calls never reach the cache or the model client *)
InitStore == InitCommon /\ CACHE_ENABLED = TRUE /\ model_mode = "none"

(* saves issued by concurrent callers, all within one reading of the clock *)
NextStore ==
    \/ \E t \in Threads, pid \in ProjIds : CallSave(t, pid)
    \/ \E t \in Threads : SaveSelect(t)
    \/ \E t \in Threads : SaveReplace(t)
    \/ \E pid \in ProjIds : Load(pid)

SpecStore == InitStore /\ [][NextStore]_vars

(* saves issued one after the other by a single caller *)
NextStoreSeq ==
    \/ \E pid \in ProjIds : CallSave(1, pid)
    \/ SaveSelect(1)
    \/ SaveReplace(1)
    \/ \E pid \in ProjIds : Load(pid)
    \/ StoreTick

SpecStoreSeq == InitStore /\ [][NextStoreSeq]_vars

----------------------------------------------------------------------------
(* Generated source text.  A text is the sequence of the declarations in it
   that the patterns of ProjectState.extract look for: the keyword, the name
   after it, and whether what follows the name completes a function pattern
   ("(" after function/def, "= (" after const). *)

Decl(kw, name, open) == [kw |-> kw, name |-> name, open |-> open]

(* lines 414-479: the fallback text for the type 'gas' *)
SimGasText ==
    << Decl("function", "doGet", TRUE), Decl("function", "saveData", TRUE),
       Decl("var", "sheet", FALSE), Decl("var", "timestamp", FALSE),
       Decl("function", "loadData", TRUE), Decl("var", "sheet", FALSE),
       Decl("var", "data", FALSE) >>

(* lines 481-684: the fallback text for every other type *)
SimHtmlText ==
    << Decl("function", "save", TRUE), Decl("const", "title", FALSE),
       Decl("const", "content", FALSE), Decl("const", "btn", FALSE),
       Decl("function", "load", TRUE), Decl("function", "showStatus", TRUE),
       Decl("const", "status", FALSE) >>

(* a text returned by the external model *)
ApiText ==
    << Decl("const", "handler", TRUE), Decl("let", "count", FALSE),
       Decl("const", "onAdd", TRUE), Decl("const", "onEdit", TRUE),
       Decl("const", "onDelete", TRUE), Decl("const", "onLoad", TRUE),
       Decl("const", "onSave", TRUE) >>

(* lines 409-684: _sim_code(finfo) *)
sim_code(finfo) == IF finfo.type = "gas" THEN SimGasText ELSE SimHtmlText

(* list(set(xs)): the elements in the order the process iterates the set *)
RECURSIVE ListOfSet(_)
ListOfSet(S) ==
    IF S = {} THEN <<>>
    ELSE LET x == CHOOSE y \in S : TRUE IN <<x>> \o ListOfSet(S \ {x})

(* lines 154-156: function NAME (, def NAME (, const NAME = ( *)
extract_funcs(code) ==
    ListOfSet({code[i].name : i \in {j \in 1..Len(code) :
        code[j].open /\ code[j].kw \in {"function", "def", "const"}}})

(* lines 158-160: var NAME, let NAME, const NAME *)
extract_vars(code) ==
    ListOfSet({code[i].name : i \in {j \in 1..Len(code) :
        code[j].kw \in {"var", "let", "const"}}})

(* the dict codes (insertion-ordered) as a sequence of <<name, text>> *)
RECURSIVE CodesGet(_, _)
CodesGet(codes, name) ==
    IF codes = <<>> THEN <<>>
    ELSE IF Head(codes)[1] = name THEN Head(codes)[2]
    ELSE CodesGet(Tail(codes), name)

CodesHas(codes, name) == \E i \in 1..Len(codes) : codes[i][1] = name

(* codes[name] = text *)
CodesPut(codes, name, text) ==
    IF CodesHas(codes, name)
    THEN [i \in 1..Len(codes) |-> IF codes[i][1] = name THEN <<name, text>> ELSE codes[i]]
    ELSE Append(codes, <<name, text>>)

(* list(codes.keys()) *)
CodesKeys(codes) == [i \in 1..Len(codes) |-> codes[i][1]]

----------------------------------------------------------------------------
(* Analysis *)

(* 'word' in req.lower(), for the requirement texts of the model *)
Contains(req, word) ==
    <<req, word>> \in {<<"Build a todo list app", "todo">>, <<"Write a diary", "diary">>}

(* lines 375-390: the project name of the fallback analysis *)
SimProjectName(req) ==
    IF Contains(req, "todo") THEN "Todo Manager"
    ELSE IF Contains(req, "diary") THEN "AI Diary"
    ELSE IF Contains(req, "receipt") THEN "Receipt Manager"
    ELSE IF Contains(req, "expense") THEN "Smart Budget"
    ELSE "Custom App"

FileInfo(name, type) == [name |-> name, type |-> type]

(* lines 368-407 with a project name that depends on when the call is made *)
sim_analyze_by_time(req) ==
    [wellFormed |-> TRUE, hasFeatures |-> TRUE,
     projectName |-> IF now = 0 THEN SimProjectName(req) ELSE "Custom App",
     description |-> req,
     files |-> <<FileInfo("Code.js", "gas"), FileInfo("Index.html", "html")>>]

(* lines 368-407: _sim_analyze(req) *)
sim_analyze(req) ==
    [wellFormed |-> TRUE, hasFeatures |-> TRUE,
     projectName |-> SimProjectName(req), description |-> req,
     files |-> <<FileInfo("Code.js", "gas"), FileInfo("Index.html", "html")>>]

(* lines 296-305: json.loads of an answer that has the required fields *)
ApiAnalysis ==
    [wellFormed |-> TRUE, hasFeatures |-> TRUE,
     projectName |-> "Api App", description |-> "from the model",
     files |-> <<FileInfo("Code.js", "gas")>>]

(* lines 296-305: json.loads of an answer that has every field read later
   except 'features' *)
NoFeaturesAnalysis == [ApiAnalysis EXCEPT !.hasFeatures = FALSE]

(* lines 296-305: json.loads of an answer whose 'files' names the backend
   file otherwise than Code.js *)
NoCodeAnalysis == [ApiAnalysis EXCEPT !.files = <<FileInfo("Main.gs", "gas")>>]

(* lines 296-305: json.loads of an answer that parses but lacks 'files' *)
MalformedAnalysis ==
    [wellFormed |-> FALSE, hasFeatures |-> TRUE,
     projectName |-> "", description |-> "", files |-> <<>>]

(* lines 207-315: APIClient.analyze *)
analyze(req) ==
    IF model_mode = "ok" THEN ApiAnalysis
    ELSE IF model_mode = "malformed" THEN MalformedAnalysis
    ELSE IF model_mode = "nofeatures" THEN NoFeaturesAnalysis
    ELSE IF model_mode = "nocode" THEN NoCodeAnalysis
    ELSE sim_analyze(req)

(* lines 317-366: APIClient.gen_code *)
gen_code(finfo) ==
    IF model_mode \in {"none", "fail"} THEN sim_code(finfo) ELSE ApiText

(* the calls of the external model one analyze or gen_code makes: none
   without a client (lines 208-209, 318-319) *)
ModelCall == IF model_mode = "none" THEN 0 ELSE 1

(* lines 245-246 and 328-329: the [:5] of the continuity context *)
CTX_NAMES == 5

(* xs[:n] *)
FirstN(xs, n) == SubSeq(xs, 1, Min(n, Len(xs)))

(* lines 243-249 and 326-331 when proj is None: no context message *)
NoCtx == [passed |-> FALSE, variables |-> <<>>, functions |-> <<>>]

(* lines 243-249 and 326-331 with [-5:] in place of [:5]: the last names *)
ContextLastFive(proj) ==
    IF proj.found
    THEN [passed |-> TRUE, variables |-> LastN(proj.variables, CTX_NAMES),
          functions |-> LastN(proj.functions, CTX_NAMES)]
    ELSE NoCtx

(* lines 243-249 and 326-331: the names put into the context message that
   precedes the prompt; a loaded state is a non-empty dict, so `if proj` tests
   that a state was loaded *)
Context(proj) ==
    IF proj.found
    THEN [passed |-> TRUE, variables |-> FirstN(proj.variables, CTX_NAMES),
          functions |-> FirstN(proj.functions, CTX_NAMES)]
    ELSE NoCtx

(* the context messages of the calls made so far, with that of one more call
   of analyze or gen_code given proj (none without a client) *)
Sent(ctxs, proj) == IF ModelCall = 1 THEN Append(ctxs, Context(proj)) ELSE ctxs

----------------------------------------------------------------------------
(* Progress tracker *)

(* line 736: msgs *)
StepLabels ==
    <<"Analysis", "Design", "Code Generation", "Testing", "Configuration", "Saving", "Complete">>

(* lines 730-733: the record ProjectGen.__init__ stores *)
NewProgress(clock) ==
    [running |-> TRUE, step |-> 0, total |-> TOTAL_STEPS, message |-> <<"Preparing...">>,
     result |-> None, start |-> clock]

(* line 876: the default of progress_store.get *)
IdleProgress ==
    [running |-> FALSE, step |-> 0, total |-> TOTAL_STEPS, message |-> <<"">>, result |-> None]

(* update(step) called without a message *)
NoMsg == <<>>

(* line 737: progress_store[sid].update({'step': step, 'message': ...}) *)
Updated(store, sid, step, msg) ==
    [store EXCEPT ![sid].step = step,
                  ![sid].message = IF step <= Len(StepLabels)
                                   THEN (IF msg # NoMsg THEN msg ELSE <<StepLabels[step]>>)
                                   ELSE <<"">>]

(* line 876: progress_store.get(sid, default) *)
peek(sid) == IF sid \in DOMAIN progress_store THEN progress_store[sid] ELSE IdleProgress

----------------------------------------------------------------------------
(* The generation pipeline: ProjectGen.__init__, ProjectGen.run, bg_gen *)

(* positions at which ProjectGen.run has returned *)
Returned == {"finish_running", "finish_result", "done"}

(* the next unused thread *)
IsNextThread(t) == pc[t] = "idle" /\ \A u \in Threads : u < t => pc[u] # "idle"

(* the locals of a thread started with bg_gen(sid, req, key, proj_id, skip_tests):
   arg_proj_id is the parameter proj_id of bg_gen, proj_id the attribute
   self.proj_id that line 786 may assign.
   The flag skip_tests is first read at line 793, and the model draws it there. *)
Started(sid, req, proj_id) ==
    [ThreadInit EXCEPT !.sid = sid, !.req = req, !.proj_id = proj_id,
                       !.arg_proj_id = proj_id]

(* bg_gen / ProjectGen(...).run() entered directly (lines 839-841, 930-931) *)
StartRun(t, sid, req, proj_id) ==
    /\ IsNextThread(t)
    /\ pc' = [pc EXCEPT ![t] = "init"]
    /\ th' = [th EXCEPT ![t] = Started(sid, req, proj_id)]
    /\ op' = [name |-> "start_run", req |-> req]
    /\ UNCHANGED <<CACHE_ENABLED, model_mode, now, ticks, cache_store, progress_store, db, results, nextTok>>

(* lines 723-733: ProjectGen.__init__ *)
RunInit(t) ==
    /\ pc[t] = "init"
    /\ progress_store' = DictSet(progress_store, th[t].sid, NewProgress(now))
    /\ pc' = [pc EXCEPT ![t] = "cache_check"]
    /\ op' = ThreadStep
    /\ UNCHANGED <<CACHE_ENABLED, model_mode, now, ticks, cache_store, db, results, th, nextTok>>

(* lines 742-744: ck = cache_key(req); cached = get_cache(ck); if cached *)
RunCacheCheck(t) ==
    /\ pc[t] = "cache_check"
    /\ cache_store' = get_cache_store(cache_key(th[t].req))
    /\ th' = [th EXCEPT ![t].cached = get_cache_ret(cache_key(th[t].req))]
    /\ pc' = [pc EXCEPT ![t] = IF get_cache_ret(cache_key(th[t].req)) # None
                               THEN "hit_update" ELSE "load"]
    /\ op' = ThreadStep
    /\ UNCHANGED <<CACHE_ENABLED, model_mode, now, ticks, progress_store, db, results, nextTok>>

(* lines 745-747 without the return: the run goes on into the stages *)
HitUpdateFallsThrough(t) ==
    /\ pc[t] = "hit_update"
    /\ progress_store' = Updated(progress_store, th[t].sid, 7, <<"Cache loaded">>)
    /\ pc' = [pc EXCEPT ![t] = "load"]
    /\ op' = ThreadStep
    /\ UNCHANGED <<CACHE_ENABLED, model_mode, now, ticks, cache_store, db, results, th, nextTok>>

(* lines 745-747: update(7, 'Cache loaded'); return cached *)
HitUpdate(t) ==
    /\ pc[t] = "hit_update"
    /\ progress_store' = Updated(progress_store, th[t].sid, 7, <<"Cache loaded">>)
    /\ th' = [th EXCEPT ![t].ret = th[t].cached]
    /\ pc' = [pc EXCEPT ![t] = "finish_running"]
    /\ op' = ThreadStep
    /\ UNCHANGED <<CACHE_ENABLED, model_mode, now, ticks, cache_store, db, results, nextTok>>

(* line 749: proj_state = ProjectState.load(proj_id) if proj_id else None *)
RunLoad(t) ==
    /\ pc[t] = "load"
    /\ th' = [th EXCEPT ![t].proj_state =
                 IF th[t].proj_id # NoProjId THEN load(th[t].proj_id) ELSE NoState]
    /\ pc' = [pc EXCEPT ![t] = "update1"]
    /\ op' = ThreadStep
    /\ UNCHANGED <<CACHE_ENABLED, model_mode, now, ticks, cache_store, progress_store, db, results, nextTok>>

(* a step that only reports progress: update(step) and the move to `next` *)
Report(t, at, step, next) ==
    /\ pc[t] = at
    /\ progress_store' = Updated(progress_store, th[t].sid, step, NoMsg)
    /\ pc' = [pc EXCEPT ![t] = next]
    /\ op' = ThreadStep
    /\ UNCHANGED <<CACHE_ENABLED, model_mode, now, ticks, cache_store, db, results, th, nextTok>>

(* line 751: update(1) *)
Update1(t) == Report(t, "update1", 1, "analyze")

(* line 752 and lines 207-315: analyze; without a client, or when the call
   or the parsing fails, the fallback analysis *)
Analyze(t) ==
    /\ pc[t] = "analyze"
    /\ th' = [th EXCEPT ![t].analysis = analyze(th[t].req),
                        ![t].model_calls = @ + ModelCall,
                        ![t].ctxs = Sent(@, th[t].proj_state)]
    /\ pc' = [pc EXCEPT ![t] = "update2"]
    /\ op' = ThreadStep
    /\ UNCHANGED <<CACHE_ENABLED, model_mode, now, ticks, cache_store, progress_store, db, results, nextTok>>

(* lines 754-755 with update(3): the design step is never reported *)
Update2ReportsThree(t) == Report(t, "update2", 3, "update3")

(* lines 754-755: update(2) *)
Update2(t) == Report(t, "update2", 2, "update3")

(* line 837: {'success': False, 'error': str(e)} *)
Failure(err) == [made |-> TRUE, success |-> FALSE, error |-> err]

(* lines 757-759 without the handler at lines 833-837: the KeyError leaves
   run, and the thread of bg_gen ends at line 841 without a result *)
Update3Propagates(t) ==
    /\ pc[t] = "update3"
    /\ progress_store' = Updated(progress_store, th[t].sid, 3, NoMsg)
    /\ IF th[t].analysis.wellFormed
       THEN /\ th' = [th EXCEPT ![t].codes = <<>>, ![t].i = 1]
            /\ pc' = [pc EXCEPT ![t] = IF Len(th[t].analysis.files) > 0
                                       THEN "gen_update" ELSE "update4"]
       ELSE /\ th' = th
            /\ pc' = [pc EXCEPT ![t] = "done"]
    /\ op' = ThreadStep
    /\ UNCHANGED <<CACHE_ENABLED, model_mode, now, ticks, cache_store, db, results, nextTok>>

(* lines 757-759: update(3); codes = {}; analysis['files'] raises when the
   analysis lacks the key, and the handler at lines 833-837 returns a failure *)
Update3(t) ==
    /\ pc[t] = "update3"
    /\ progress_store' = Updated(progress_store, th[t].sid, 3, NoMsg)
    /\ IF th[t].analysis.wellFormed
       THEN /\ th' = [th EXCEPT ![t].codes = <<>>, ![t].i = 1]
            /\ pc' = [pc EXCEPT ![t] = IF Len(th[t].analysis.files) > 0
                                       THEN "gen_update" ELSE "update4"]
            /\ results' = results
       ELSE /\ th' = [th EXCEPT ![t].ret = t]
            /\ results' = [results EXCEPT ![t] = Failure("KeyError: 'files'")]
            /\ pc' = [pc EXCEPT ![t] = "finish_running"]
    /\ op' = ThreadStep
    /\ UNCHANGED <<CACHE_ENABLED, model_mode, now, ticks, cache_store, db, nextTok>>

(* line 760: update(3, "Code Generation (i/n): name") *)
GenUpdate(t) ==
    /\ pc[t] = "gen_update"
    /\ progress_store' = Updated(progress_store, th[t].sid, 3,
                                 <<"Code Generation", th[t].i, Len(th[t].analysis.files),
                                   th[t].analysis.files[th[t].i].name>>)
    /\ pc' = [pc EXCEPT ![t] = "gen_code"]
    /\ op' = ThreadStep
    /\ UNCHANGED <<CACHE_ENABLED, model_mode, now, ticks, cache_store, db, results, th, nextTok>>

(* lines 761-762 and 317-366: codes[name] = gen_code(...); the fallback text
   without a client or when the call fails *)
GenCode(t) ==
    /\ pc[t] = "gen_code"
    /\ LET fi == th[t].analysis.files[th[t].i] IN
       th' = [th EXCEPT ![t].codes = CodesPut(@, fi.name, gen_code(fi)),
                        ![t].i = @ + 1, ![t].model_calls = @ + ModelCall,
                        ![t].ctxs = Sent(@, th[t].proj_state)]
    /\ pc' = [pc EXCEPT ![t] = IF th[t].i < Len(th[t].analysis.files)
                               THEN "gen_update" ELSE "update4"]
    /\ op' = ThreadStep
    /\ UNCHANGED <<CACHE_ENABLED, model_mode, now, ticks, cache_store, progress_store, db, results, nextTok>>

(* lines 764-765 without line 765: no test stub is added *)
Update4NoTestStub(t) ==
    /\ pc[t] = "update4"
    /\ progress_store' = Updated(progress_store, th[t].sid, 4, NoMsg)
    /\ pc' = [pc EXCEPT ![t] = "update5"]
    /\ op' = ThreadStep
    /\ UNCHANGED <<CACHE_ENABLED, model_mode, now, ticks, cache_store, db, results, th, nextTok>>

(* lines 764-765: update(4); codes['Test.js'] = ... *)
Update4(t) ==
    /\ pc[t] = "update4"
    /\ progress_store' = Updated(progress_store, th[t].sid, 4, NoMsg)
    /\ th' = [th EXCEPT ![t].codes = CodesPut(@, "Test.js", <<Decl("function", "testAll", TRUE)>>)]
    /\ pc' = [pc EXCEPT ![t] = "update5"]
    /\ op' = ThreadStep
    /\ UNCHANGED <<CACHE_ENABLED, model_mode, now, ticks, cache_store, db, results, nextTok>>

(* lines 767-774: update(5); codes['appsscript.json'], codes['README.md'] *)
Update5(t) ==
    /\ pc[t] = "update5"
    /\ progress_store' = Updated(progress_store, th[t].sid, 5, NoMsg)
    /\ th' = [th EXCEPT ![t].codes =
                 CodesPut(CodesPut(@, "appsscript.json", <<>>), "README.md", <<>>)]
    /\ pc' = [pc EXCEPT ![t] = "update6"]
    /\ op' = ThreadStep
    /\ UNCHANGED <<CACHE_ENABLED, model_mode, now, ticks, cache_store, db, results, nextTok>>

(* line 786 with an id made from the text and the time of the run *)
derived_id_by_time(req) == <<"md5", req, IF now = 0 THEN "t0" ELSE "t1">>

(* line 786: hashlib.md5(req.encode()).hexdigest()[:12] *)
derived_id(req) == <<"md5", req>>

(* lines 776-788 up to the call of save: update(6); write the files;
   extract; derive the project id; the arguments of ProjectState.save *)
Update6(t) ==
    /\ pc[t] = "update6"
    /\ progress_store' = Updated(progress_store, th[t].sid, 6, NoMsg)
    /\ LET main_code == CodesGet(th[t].codes, "Code.js") IN
       th' = [th EXCEPT ![t].files_written = TRUE,
                        ![t].code = main_code,
                        ![t].variables = extract_vars(main_code),
                        ![t].functions = extract_funcs(main_code),
                        ![t].proj_id = IF @ = NoProjId THEN derived_id(th[t].req) ELSE @,
                        ![t].name = th[t].analysis.projectName,
                        ![t].retpc = "update7"]
    /\ pc' = [pc EXCEPT ![t] = "save_select"]
    /\ op' = ThreadStep
    /\ UNCHANGED <<CACHE_ENABLED, model_mode, now, ticks, cache_store, db, results, nextTok>>

(* line 788 with a storage error that surfaces after the row was replaced *)
SaveRaisesHalfWritten(t) ==
    /\ pc[t] \in {"save_select", "save_replace"}
    /\ th[t].retpc = "update7"
    /\ db' = IF pc[t] = "save_replace"
             THEN DictSet(db, th[t].proj_id,
                     Row(th[t].proj_id, th[t].name, th[t].code, th[t].variables,
                         th[t].functions, th[t].history, th[t].save_now))
             ELSE db
    /\ results' = [results EXCEPT ![t] = Failure("sqlite3.OperationalError")]
    /\ th' = [th EXCEPT ![t].ret = t, ![t].history = <<>>, ![t].save_now = 0]
    /\ pc' = [pc EXCEPT ![t] = "finish_running"]
    /\ op' = ThreadStep
    /\ UNCHANGED <<CACHE_ENABLED, model_mode, now, ticks, cache_store, progress_store, nextTok>>

(* line 788 wrapped in a try whose handler only logs: the run goes on after
   a save that raised, and caches and returns a success result *)
SaveRaisesSwallowed(t) ==
    /\ pc[t] \in {"save_select", "save_replace"}
    /\ th[t].retpc = "update7"
    /\ db' = db
    /\ results' = results
    /\ th' = [th EXCEPT ![t].history = <<>>, ![t].save_now = 0]
    /\ pc' = [pc EXCEPT ![t] = "update7"]
    /\ op' = ThreadStep
    /\ UNCHANGED <<CACHE_ENABLED, model_mode, now, ticks, cache_store, progress_store, nextTok>>

(* line 788 and lines 114-126: a statement of ProjectState.save raises
   sqlite3.Error (database locked, disk, corruption) before the commit at line
   126 has taken effect; the connection is dropped with its transaction
   uncommitted and the handler at lines 833-837 returns a failure *)
SaveRaises(t) ==
    /\ pc[t] \in {"save_select", "save_replace"}
    /\ th[t].retpc = "update7"
    /\ db' = db
    /\ results' = [results EXCEPT ![t] = Failure("sqlite3.OperationalError")]
    /\ th' = [th EXCEPT ![t].ret = t, ![t].history = <<>>, ![t].save_now = 0]
    /\ pc' = [pc EXCEPT ![t] = "finish_running"]
    /\ op' = ThreadStep
    /\ UNCHANGED <<CACHE_ENABLED, model_mode, now, ticks, cache_store, progress_store, nextTok>>

(* lines 790-793: update(7); deploy_url = None; if not skip_tests *)
Update7(t) ==
    /\ pc[t] = "update7"
    /\ progress_store' = Updated(progress_store, th[t].sid, 7, NoMsg)
    /\ \E skip \in BOOLEAN :
          /\ th' = [th EXCEPT ![t].skip_tests = skip]
          /\ pc' = [pc EXCEPT ![t] = IF skip THEN "assemble" ELSE "run_tests"]
    /\ op' = ThreadStep
    /\ UNCHANGED <<CACHE_ENABLED, model_mode, now, ticks, cache_store, db, results, nextTok>>

(* lines 693-717: what run_tests returns: True (tests passed, or clasp
   answers --version with an error), False (push or tests failed), None (clasp
   is not installed, or another error) *)
TestReturns == {"True", "False", "None"}

(* lines 794-797: test_ok = deployer.run_tests(); a falsy test_ok is logged
   and the run goes on to deploy *)
RunTests(t) ==
    /\ pc[t] = "run_tests"
    /\ \E test_ok \in TestReturns :
          th' = [th EXCEPT ![t].deploy_calls = @ + 1,
                           ![t].hooks = Append(@, <<"run_tests", test_ok>>)]
    /\ pc' = [pc EXCEPT ![t] = "deploy"]
    /\ op' = ThreadStep
    /\ UNCHANGED <<CACHE_ENABLED, model_mode, now, ticks, cache_store, progress_store, db, results, nextTok>>

(* lines 1011-1039: what deploy returns: None (written "": clasp not
   installed, no .clasp.json, the deployment failed or printed no URL) or the
   line of clasp's output that holds the URL *)
DeployReturns == {"", "https://script.google.com/x"}

(* line 798: deploy_url = deployer.deploy() *)
Deploy(t) ==
    /\ pc[t] = "deploy"
    /\ \E url \in DeployReturns :
          th' = [th EXCEPT ![t].deploy_calls = @ + 1, ![t].deploy_url = url,
                           ![t].hooks = Append(@, <<"deploy", url>>)]
    /\ pc' = [pc EXCEPT ![t] = "assemble"]
    /\ op' = ThreadStep
    /\ UNCHANGED <<CACHE_ENABLED, model_mode, now, ticks, cache_store, progress_store, db, results, nextTok>>

(* lines 696 and 700 (run_tests) and the subprocess.run calls of deploy: the
   clasp process is waited for without a timeout, so a run whose clasp never
   exits stays in the call *)
DeployerHangs(t) ==
    /\ pc[t] \in {"run_tests", "deploy"}
    /\ th' = [th EXCEPT ![t].deploy_calls = @ + 1]
    /\ pc' = [pc EXCEPT ![t] = "blocked"]
    /\ op' = ThreadStep
    /\ UNCHANGED <<CACHE_ENABLED, model_mode, now, ticks, cache_store, progress_store, db, results, nextTok>>

(* lines 810-828: the result dict *)
Result(t) ==
    [made |-> TRUE, success |-> TRUE, project_id |-> th[t].proj_id,
     project_name |-> th[t].analysis.projectName,
     description |-> th[t].analysis.description,
     files |-> CodesKeys(th[t].codes), code |-> th[t].codes,
     variables |-> th[t].variables, functions |-> th[t].functions,
     elapsed_time |-> now - progress_store[th[t].sid].start,
     deployment_url |-> th[t].deploy_url, cached |-> FALSE]

(* lines 800-831 without line 830: the result is returned but never cached *)
AssembleNoPut(t) ==
    /\ pc[t] = "assemble"
    /\ results' = [results EXCEPT ![t] = Result(t)]
    /\ th' = [th EXCEPT ![t].ret = t, ![t].put_at = now, ![t].hooks = <<>>]
    /\ pc' = [pc EXCEPT ![t] = "finish_running"]
    /\ op' = ThreadStep
    /\ UNCHANGED <<CACHE_ENABLED, model_mode, now, ticks, cache_store, progress_store, db, nextTok>>

(* lines 800-831: build the result, set_cache(ck, result), return result;
   analysis['features'] at line 815 raises when the analysis lacks the key,
   and the handler at lines 833-837 returns a failure.  The deployer and
   test_ok are dropped with the frame of run: of the hooks the result keeps
   deployment_url only. *)
Assemble(t) ==
    /\ pc[t] = "assemble"
    /\ IF th[t].analysis.hasFeatures
       THEN /\ results' = [results EXCEPT ![t] = Result(t)]
            /\ cache_store' = set_cache_store(cache_key(th[t].req), t)
            /\ th' = [th EXCEPT ![t].ret = t, ![t].put_at = now, ![t].hooks = <<>>]
       ELSE /\ results' = [results EXCEPT ![t] = Failure("KeyError: 'features'")]
            /\ cache_store' = cache_store
            /\ th' = [th EXCEPT ![t].ret = t, ![t].hooks = <<>>]
    /\ pc' = [pc EXCEPT ![t] = "finish_running"]
    /\ op' = ThreadStep
    /\ UNCHANGED <<CACHE_ENABLED, model_mode, now, ticks, progress_store, db, nextTok>>

(* line 842: progress_store[sid]['running'] = False *)
FinishRunning(t) ==
    /\ pc[t] = "finish_running"
    /\ progress_store' = [progress_store EXCEPT ![th[t].sid].running = FALSE]
    /\ pc' = [pc EXCEPT ![t] = "finish_result"]
    /\ op' = ThreadStep
    /\ UNCHANGED <<CACHE_ENABLED, model_mode, now, ticks, cache_store, db, results, th, nextTok>>

(* line 843: progress_store[sid]['result'] = result *)
FinishResult(t) ==
    /\ pc[t] = "finish_result"
    /\ progress_store' = [progress_store EXCEPT ![th[t].sid].result = th[t].ret]
    /\ pc' = [pc EXCEPT ![t] = "done"]
    /\ op' = ThreadStep
    /\ UNCHANGED <<CACHE_ENABLED, model_mode, now, ticks, cache_store, db, results, th, nextTok>>

----------------------------------------------------------------------------
(* The request handlers *)

(* lines 852-871: POST /api/generate.  Each request takes the next slot t: a
   request answered by the handler alone (400, or a cache hit) leaves the slot
   "answered" with no thread; a miss starts the thread of the slot. *)
ApiGen(t, sid, req, proj_id) ==
    /\ IsNextThread(t)
    /\ IF req = ""
       THEN /\ op' = [name |-> "api_gen", req |-> req, status |-> 400]
            /\ pc' = [pc EXCEPT ![t] = "answered"]
            /\ UNCHANGED <<cache_store, results, th>>
       ELSE LET cached == get_cache_ret(cache_key(req)) IN
            /\ cache_store' = get_cache_store(cache_key(req))
            /\ IF cached # None
               THEN /\ results' = [results EXCEPT ![cached].cached = TRUE]
                    /\ op' = [name |-> "api_gen", req |-> req, status |-> 200,
                              cached |-> TRUE, result |-> cached]
                    /\ pc' = [pc EXCEPT ![t] = "answered"]
                    /\ th' = th
               ELSE /\ pc' = [pc EXCEPT ![t] = "init"]
                    /\ th' = [th EXCEPT ![t] = Started(sid, req, proj_id)]
                    /\ op' = [name |-> "api_gen", req |-> req, status |-> 200,
                              cached |-> FALSE, session_id |-> sid]
                    /\ results' = results
    /\ UNCHANGED <<CACHE_ENABLED, model_mode, now, ticks, progress_store, db, nextTok>>

(* lines 873-876: GET /api/progress *)
ApiProg(sid) ==
    /\ op' = [name |-> "api_prog", sid |-> sid, record |-> peek(sid)]
    /\ UNCHANGED <<CACHE_ENABLED, model_mode, now, ticks, cache_store, progress_store, db, results,
                   pc, th, nextTok>>

(* session ids are opaque: the first run uses "s1"; later ones reuse an id or
   take another *)
SidsFor(t) == IF t = 1 THEN {"s1"} ELSE Sids

(* the first run is for the first requirements text; later ones repeat it or
   bring another *)
ReqsFor(t) == IF t = 1 THEN {"Build a todo list app"} ELSE Reqs

(* the clock of the pipeline specifications advances by whole TTLs *)
RunTick == Tick(CACHE_TTL, MaxTicks)

Init == InitCommon /\ CACHE_ENABLED \in BOOLEAN /\ model_mode \in ModelModes

(* the steps of the run threads *)
ThreadNext ==
    \/ \E t \in Threads : RunInit(t)
    \/ \E t \in Threads : RunCacheCheck(t)
    \/ \E t \in Threads : HitUpdate(t)
    \/ \E t \in Threads : RunLoad(t)
    \/ \E t \in Threads : Update1(t)
    \/ \E t \in Threads : Analyze(t)
    \/ \E t \in Threads : Update2(t)
    \/ \E t \in Threads : Update3(t)
    \/ \E t \in Threads : GenUpdate(t)
    \/ \E t \in Threads : GenCode(t)
    \/ \E t \in Threads : Update4(t)
    \/ \E t \in Threads : Update5(t)
    \/ \E t \in Threads : Update6(t)
    \/ \E t \in Threads : SaveSelect(t)
    \/ \E t \in Threads : SaveReplace(t)
    \/ \E t \in Threads : SaveRaises(t)
    \/ \E t \in Threads : Update7(t)
    \/ \E t \in Threads : RunTests(t)
    \/ \E t \in Threads : Deploy(t)
    \/ \E t \in Threads : DeployerHangs(t)
    \/ \E t \in Threads : Assemble(t)
    \/ \E t \in Threads : FinishRunning(t)
    \/ \E t \in Threads : FinishResult(t)

(* a run is between its start and the end of bg_gen *)
RunActive == \E t \in Threads : pc[t] \notin {"idle", "answered", "done"}

(* concurrent runs: requests arrive at any time, all within one reading of
   the clock (a run lasts seconds, the TTL an hour); runs separated by the
   passing of time are those of NextSeq *)
Next ==
    \/ \E t \in Threads : \E sid \in SidsFor(t), req \in ReqsFor(t),
          proj_id \in ProjIds \cup {NoProjId} : StartRun(t, sid, req, proj_id)
    \/ \E t \in Threads : \E sid \in SidsFor(t), req \in ReqsFor(t) \cup {""},
          proj_id \in ProjIds \cup {NoProjId} : ApiGen(t, sid, req, proj_id)
    \/ \E sid \in Sids : ApiProg(sid)
    \/ ThreadNext

Spec == Init /\ [][Next]_vars

(* runs one after the other: a request arrives when no run is active *)
NextSeq ==
    \/ /\ ~RunActive
       /\ \E t \in Threads : \E sid \in SidsFor(t), req \in ReqsFor(t),
             proj_id \in ProjIds \cup {NoProjId} : StartRun(t, sid, req, proj_id)
    \/ /\ ~RunActive
       /\ \E t \in Threads : \E sid \in SidsFor(t), req \in ReqsFor(t) \cup {""},
             proj_id \in ProjIds \cup {NoProjId} : ApiGen(t, sid, req, proj_id)
    \/ \E sid \in Sids : ApiProg(sid)
    \/ ThreadNext
    \/ RunTick

SpecSeq == Init /\ [][NextSeq]_vars

(* every call of the external model times out or raises (the client is built
   with timeout=Config.API_TIMEOUT at line 201) *)
InitLive == InitCommon /\ CACHE_ENABLED \in BOOLEAN /\ model_mode = "fail"

(* runs one after the other on threads that the interpreter keeps scheduling:
   a run thread that can take a step eventually takes one *)
SpecLive == InitLive /\ [][NextSeq]_vars /\ WF_vars(ThreadNext)

----------------------------------------------------------------------------
(* Properties of the cache *)

(* C2: get_cache(k) returns the stored payload and leaves the cache unchanged
   when the entry is younger than the TTL; returns None and removes the entry
   when its age is the TTL or more; returns None and changes nothing when the
   key is missing or caching is disabled. *)
C2_GetContract ==
    [][op'.name = "get" =>
         LET k == op'.k IN
         /\ (~CACHE_ENABLED) => (op'.ret = None /\ cache_store' = cache_store)
         /\ k \notin DOMAIN cache_store => (op'.ret = None /\ cache_store' = cache_store)
         /\ (CACHE_ENABLED /\ k \in DOMAIN cache_store) =>
              /\ now - cache_store[k].t < 3600 =>
                   (op'.ret = cache_store[k].d /\ cache_store' = cache_store)
              /\ now - cache_store[k].t >= 3600 =>
                   /\ op'.ret = None
                   /\ DOMAIN cache_store' = (DOMAIN cache_store) \ {k}
                   /\ \A j \in DOMAIN cache_store' : cache_store'[j] = cache_store[j]
    ]_vars

(* a get that returned the payload of an entry one second short of expiry *)
C2_Witness ==
    /\ op.name = "get"
    /\ op.ret # None
    /\ op.k \in DOMAIN cache_store
    /\ now - cache_store[op.k].t = 3600 - 1

(* C3: with caching disabled, set_cache(k, d) leaves cache_store as it was. *)
C3_PutNoOpWhenDisabled ==
    [][(op'.name = "set" /\ ~CACHE_ENABLED) => cache_store' = cache_store]_vars

----------------------------------------------------------------------------
(* Properties of the store *)

StoredHistory(pid) == load(pid).history

(* C5: every stored history has at most 10 revisions, also when the saves of
   concurrent callers interleave. *)
C5_HistoryCapped ==
    \A pid \in DOMAIN db : Len(StoredHistory(pid)) <= 10

(* more saves than the cap were issued, a second caller among them, and the
   stored history is full *)
C5_Witness ==
    \E pid \in DOMAIN db :
        /\ nextTok[pid] > 10
        /\ Len(StoredHistory(pid)) = 10
        /\ \E t \in Threads \ {1} : th[t].calls > 0

(* C6: after N saves made one after the other, the stored history is the
   last min(N, 10) saves in save order, each with the code, variables and
   functions its save was given. *)
C6_HistoryIsLastSaves ==
    \A pid \in ProjIds :
        (pc[1] = "idle" /\ nextTok[pid] > 0) =>
            LET N == nextTok[pid]
                h == StoredHistory(pid)
                first == IF N > 10 THEN N - 10 + 1 ELSE 1
            IN  /\ load(pid).found
                /\ Len(h) = (IF N > 10 THEN 10 ELSE N)
                /\ \A i \in 1..Len(h) :
                      /\ h[i].code = first + i - 1
                      /\ h[i].variables = TokVariables(first + i - 1)
                      /\ h[i].functions = TokFunctions(first + i - 1)

(* eleven saves have completed and the oldest has been evicted *)
C6_Witness ==
    \E pid \in DOMAIN db :
        /\ pc[1] = "idle"
        /\ nextTok[pid] >= 11
        /\ Len(StoredHistory(pid)) = 10
        /\ StoredHistory(pid)[1].code = nextTok[pid] - 9

(* C7: created_at stays the time of the first save (the timestamp of the
   oldest revision while nothing has been evicted), and updated_at is the time
   of the latest save. *)
C7_CreatedAtPreserved ==
    \A pid \in DOMAIN db :
        (pc[1] = "idle" /\ nextTok[pid] <= 10) =>
            LET h == StoredHistory(pid) IN
            /\ load(pid).created_at = h[1].timestamp
            /\ load(pid).updated_at = h[Len(h)].timestamp

(* C8: once concurrent saves to one project id have all completed, every one
   of them has its revision in the history (no more saves than the cap). *)
C8_NoLostUpdates ==
    \A pid \in ProjIds :
        ((\A t \in Threads : pc[t] = "idle") /\ nextTok[pid] <= 10) =>
            \A n \in 1..nextTok[pid] :
                \E i \in 1..Len(SelectHistory(pid)) : SelectHistory(pid)[i].code = n

----------------------------------------------------------------------------
(* Properties of the pipeline *)

(* run A has finished with a successful result of its own making *)
FinishedOwn(A) ==
    /\ pc[A] = "done"
    /\ th[A].ret = A
    /\ results[A].success

(* run B is for the requirements text of the finished run A, caching is
   enabled, and less than a TTL has passed since A cached its result *)
SecondWithinTTL(A, B) ==
    /\ A # B
    /\ FinishedOwn(A)
    /\ CACHE_ENABLED
    /\ th[B].req = th[A].req
    /\ now - th[A].put_at < 3600

(* the payload of run A is the same before and after the step, the `cached`
   flag aside *)
SamePayloadButCached(A) ==
    /\ DOMAIN results'[A] = DOMAIN results[A]
    /\ \A f \in (DOMAIN results[A]) \ {"cached"} : results'[A][f] = results[A][f]

(* C1: with caching enabled, a second run for the same requirements text that
   starts after a first successful run has finished and within the TTL returns
   the payload of the first run, which stays the same in every field except
   possibly `cached`, and the second run calls neither the model nor the
   deployer. *)
C1_SecondRunReturnsFirst ==
    [][\A A \in Threads :
         /\ FinishedOwn(A) => SamePayloadButCached(A)
         /\ \A B \in Threads :
              /\ (SecondWithinTTL(A, B) /\ pc[B] = "cache_check" /\ pc'[B] # pc[B]) =>
                    (th'[B].cached = A /\ pc'[B] = "hit_update")
              /\ (FinishedOwn(A) /\ A # B /\ th[B].cached = A
                    /\ pc[B] = "hit_update" /\ pc'[B] # pc[B]) =>
                    /\ pc'[B] \in Returned
                    /\ th'[B].ret = A
                    /\ th'[B].model_calls = 0
                    /\ th'[B].deploy_calls = 0
                    /\ results'[B] = [made |-> FALSE]
    ]_vars

(* a second run has returned the payload of the first while a model client
   was configured, without calling it *)
C1_Witness ==
    \E A, B \in Threads :
        /\ SecondWithinTTL(A, B)
        /\ model_mode \in {"ok", "fail"}
        /\ pc[B] = "done"
        /\ th[B].ret = A
        /\ th[A].model_calls > 0
        /\ th[B].model_calls = 0
        /\ progress_store[th[B].sid].result = A

(* C4: a run that finds a live cache entry for its requirements moves its
   progress to step 7 and returns the cached payload; it leaves the store
   unchanged, generates no files and calls neither the model nor the
   deployer. *)
C4_HitBypassesStages ==
    [][\A t \in Threads :
         /\ (pc[t] = "cache_check" /\ pc'[t] = "hit_update") =>
               /\ th'[t].cached = cache_store[cache_key(th[t].req)].d
               /\ db' = db
         /\ (pc[t] = "hit_update" /\ pc'[t] # pc[t]) =>
               /\ pc'[t] = "finish_running"
               /\ progress_store'[th[t].sid].step = 7
               /\ th'[t].ret = th[t].cached
               /\ db' = db
               /\ nextTok' = nextTok
               /\ th'[t].db_writes = 0
               /\ ~th'[t].files_written
               /\ th'[t].model_calls = 0
               /\ th'[t].deploy_calls = 0
    ]_vars

(* a run served from the cache has ended: its record stands at step 7 with
   the payload of the run that filled the cache *)
C4_Witness ==
    \E t \in Threads :
        /\ pc[t] = "done"
        /\ th[t].cached # None
        /\ th[t].cached # t
        /\ th[t].ret = th[t].cached
        /\ progress_store[th[t].sid].step = 7
        /\ progress_store[th[t].sid].message = <<"Cache loaded">>
        /\ db # <<>>

(* C9: for any session id, the step of its record never decreases once the
   record exists. *)
C9_StepNonDecreasing ==
    [][\A sid \in DOMAIN progress_store :
         peek(sid)'.step >= peek(sid).step]_vars

(* C10: a poller of a session whose record exists never receives
   running = false together with result = null. *)
C10_FinishAtomic ==
    [][(op'.name = "api_prog" /\ op'.sid \in DOMAIN progress_store) =>
         (op'.record.running \/ op'.record.result # None)]_vars

(* C11: for every session id at most one run creates or writes its progress
   record: an accepted generation request never starts a run on a session id
   that an earlier run was started with. *)
C11_SingleWriterPerSession ==
    [][\A t \in Threads :
         (pc[t] = "idle" /\ pc'[t] = "init" /\ op'.name = "api_gen") =>
             \A u \in Threads \ {t} :
                 pc[u] \notin {"idle", "answered"} => th[u].sid # th'[t].sid
    ]_vars

(* the positions of a run inside ProjectGen.run *)
InRun ==
    {"cache_check", "hit_update", "load", "update1", "analyze", "update2", "update3",
     "gen_update", "gen_code", "update4", "update5", "update6", "save_select",
     "save_replace", "update7", "run_tests", "deploy", "assemble"}

(* what run returned is a success result or a failure result with its message *)
SuccessOrFailure(r) ==
    /\ r.made
    /\ \/ r.success /\ "error" \notin DOMAIN r
       \/ (~r.success) /\ "error" \in DOMAIN r /\ r.error # ""

(* C12: run never propagates an exception: whatever fails inside a stage, a
   run that leaves ProjectGen.run has returned exactly one of a success
   result or a failure result with an error message. *)
C12_RunReturnsOneResult ==
    [][\A t \in Threads :
         (pc[t] \in InRun /\ pc'[t] \notin InRun \cup {"blocked"}) =>
             /\ pc'[t] = "finish_running"
             /\ th'[t].ret # None
             /\ SuccessOrFailure(results'[th'[t].ret])
    ]_vars

(* a run has ended in the failure raised in the code-generation stage, and
   bg_gen has published it *)
C12_Witness ==
    \E t \in Threads :
        /\ pc[t] = "done" /\ th[t].ret = t
        /\ results[t].success = FALSE /\ results[t].error = "KeyError: 'files'"
        /\ progress_store[th[t].sid].result = t
        /\ ~progress_store[th[t].sid].running

(* the errors raised on what the external model answered *)
ModelCaused == {"KeyError: 'files'", "KeyError: 'features'"}

(* C13: whatever the external model does, the run goes on with the fallback
   analysis or the fallback text: no run ends in a failure result because of
   the model's answer. *)
C13_ModelNeverFailsRun ==
    \A t \in Threads :
        (pc[t] \in Returned /\ th[t].ret = t /\ ~results[t].success) =>
            results[t].error \notin ModelCaused

(* the positions of a run up to the end of ProjectState.save *)
UpToSave ==
    {"load", "update1", "analyze", "update2", "update3", "gen_update", "gen_code",
     "update4", "update5", "update6", "save_select", "save_replace"}

(* no run was started after run t *)
LatestRun(t) == \A u \in Threads : u > t => pc[u] \in {"idle", "answered"}

(* C14: the save is the single commit point: the only step that changes the
   store is the completion of a save; a run that fails before its save has
   completed, the failure of the save included, returns a failure result
   having written nothing, and the state of the project id it was given is
   what the run loaded when it started. *)
C14_SaveIsCommitPoint ==
    [][/\ db' # db =>
            \E t \in Threads : pc[t] = "save_replace" /\ pc'[t] = th[t].retpc
       /\ \A t \in Threads :
            (pc[t] \in UpToSave /\ pc'[t] = "finish_running") =>
                /\ db' = db
                /\ th'[t].db_writes = 0
                /\ th'[t].ret = t
                /\ ~results'[t].success
                /\ "error" \in DOMAIN results'[t]
                /\ (th[t].proj_id \in ProjIds /\ LatestRun(t)) =>
                       load(th[t].proj_id)' = th[t].proj_state
    ]_vars

(* the save of a run given the id of an existing project has failed: the run
   has ended in a failure result and the project is as the run loaded it *)
C14_Witness ==
    \E t \in Threads :
        /\ pc[t] = "done" /\ th[t].ret = t
        /\ results[t].success = FALSE
        /\ results[t].error = "sqlite3.OperationalError"
        /\ th[t].proj_id \in ProjIds
        /\ th[t].proj_state.found
        /\ load(th[t].proj_id) = th[t].proj_state

(* C15: under any interleaving of the cache calls of concurrent threads, a
   get never fails: it returns a payload that a put stored, or absent; two
   threads that read the same expired entry both get absent. *)
C15_GetNeverFails ==
    op.name = "get_cache" =>
        /\ "raised" \notin DOMAIN op
        /\ op.ret \in Threads \cup {None}

(* C16: every started run terminates: a session whose record is running
   eventually has running = false and a result. *)
C16_RunsTerminate ==
    \A sid \in Sids :
        peek(sid).running ~> (~peek(sid).running /\ peek(sid).result # None)

(* the file list of a result names the file *)
HasFile(r, name) == \E i \in 1..Len(r.files) : r.files[i] = name

(* C17: the file map of every successful run holds Code.js, every file the
   analysis lists, Test.js, appsscript.json and README.md, and the variables
   and functions reported are those extracted from the text of Code.js. *)
C17_ArtifactSet ==
    \A t \in Threads :
        (pc[t] \in Returned /\ th[t].ret = t /\ results[t].success) =>
            LET r == results[t] IN
            /\ HasFile(r, "Code.js")
            /\ \A i \in 1..Len(th[t].analysis.files) : HasFile(r, th[t].analysis.files[i].name)
            /\ HasFile(r, "Test.js")
            /\ HasFile(r, "appsscript.json")
            /\ HasFile(r, "README.md")
            /\ r.variables = extract_vars(CodesGet(r.code, "Code.js"))
            /\ r.functions = extract_funcs(CodesGet(r.code, "Code.js"))

(* run t has got its analysis *)
Analyzed(t) == th[t].analysis.wellFormed

(* run t has generated the i-th file of its analysis *)
Generated(t, i) ==
    /\ Analyzed(t)
    /\ i \in 1..Len(th[t].analysis.files)
    /\ CodesHas(th[t].codes, th[t].analysis.files[i].name)

(* C18: with the external model failing, two runs for the same requirements
   text get the same fallback analysis and the same content for every file;
   the analysis depends on the requirements text only, and the fallback
   content of a file on the type of its descriptor only. *)
C18_FallbackDeterminism ==
    model_mode \in {"none", "fail"} =>
        \A A, B \in Threads :
            /\ (Analyzed(A) /\ Analyzed(B) /\ th[A].req = th[B].req) =>
                   th[A].analysis = th[B].analysis
            /\ \A i \in 1..2, j \in 1..2 :
                   (Generated(A, i) /\ Generated(B, j)
                      /\ th[A].analysis.files[i].type = th[B].analysis.files[j].type) =>
                       CodesGet(th[A].codes, th[A].analysis.files[i].name)
                         = CodesGet(th[B].codes, th[B].analysis.files[j].name)
            /\ (pc[A] \in Returned /\ pc[B] \in Returned /\ th[A].ret = A /\ th[B].ret = B
                  /\ results[A].success /\ results[B].success /\ th[A].req = th[B].req) =>
                   /\ results[A].code = results[B].code
                   /\ results[A].files = results[B].files
                   /\ results[A].project_name = results[B].project_name
                   /\ results[A].description = results[B].description

(* two runs for the same text, made a TTL apart while the model call fails,
   the second with the project state the first saved, have ended with the
   same files *)
C18_Witness ==
    \E A, B \in Threads :
        /\ A # B
        /\ model_mode = "fail"
        /\ pc[A] = "done" /\ pc[B] = "done" /\ th[A].ret = A /\ th[B].ret = B
        /\ results[A].success /\ results[B].success
        /\ th[A].req = th[B].req
        /\ th[A].put_at # th[B].put_at
        /\ ~th[A].proj_state.found /\ th[B].proj_state.found
        /\ results[A].code = results[B].code

(* run t is the example scenario: the todo requirements, no project id given
   (the id is the one derived at line 786), caching disabled, the external
   model unavailable, skip_tests left at True *)
ExampleScenario(t) ==
    /\ th[t].req = "Build a todo list app"
    /\ th[t].proj_id = derived_id(th[t].req)
    /\ ~CACHE_ENABLED
    /\ model_mode \in {"none", "fail"}
    /\ th[t].skip_tests

(* the save of run t raised *)
StoreFailed(t) ==
    /\ th[t].ret = t
    /\ ~results[t].success
    /\ results[t].error = "sqlite3.OperationalError"

(* C19: the example scenario ends with success = true, the todo project
   name, a file set holding the backend, index, test, config and readme
   files, and no deployment URL (the store being available). *)
C19_ExampleScenario ==
    \A t \in Threads :
        (pc[t] \in Returned /\ ExampleScenario(t) /\ ~StoreFailed(t)) =>
            /\ th[t].ret = t
            /\ results[t].success
            /\ results[t].project_name = "Todo Manager"
            /\ \A f \in {"Code.js", "Index.html", "Test.js", "appsscript.json", "README.md"} :
                   HasFile(results[t], f)
            /\ results[t].deployment_url = ""
            /\ th[t].deploy_calls = 0

(* the example scenario has run to its end without a model client *)
C19_Witness ==
    \E t \in Threads :
        /\ pc[t] = "done"
        /\ ExampleScenario(t)
        /\ model_mode = "none"
        /\ th[t].ret = t
        /\ results[t].success
        /\ progress_store[th[t].sid].result = t

(* the step in the progress record of the session of run t *)
StepOf(t) == progress_store[th[t].sid].step

(* the positions of a run that was not served from the cache *)
InStages == InRun \ {"cache_check", "hit_update"}

(* C20: a run not served from the cache reports the steps 1 to 7 in order,
   none skipped, step 3 possibly several times; a step is reported only after
   the one before it, and after a stage has failed the run reports no
   further step. *)
C20_StepsInOrder ==
    [][\A t \in Threads :
         /\ (pc[t] = "cache_check" /\ pc'[t] = "load") => StepOf(t) = 0
         /\ (pc[t] \in InStages /\ pc'[t] # pc[t]) =>
               /\ StepOf(t)' = StepOf(t) \/ StepOf(t)' = StepOf(t) + 1
               /\ (progress_store' # progress_store /\ StepOf(t)' = StepOf(t)) =>
                      StepOf(t) = 3
               /\ (pc'[t] = "finish_running" /\ results'[t].success) => StepOf(t)' = 7
         /\ (pc[t] \in Returned /\ pc'[t] # pc[t]) => StepOf(t)' = StepOf(t)
    ]_vars

(* a run whose save raised has ended with its record at step 6 *)
C20_Witness ==
    \E t \in Threads :
        /\ pc[t] = "done"
        /\ StoreFailed(t)
        /\ StepOf(t) = 6
        /\ progress_store[th[t].sid].result = t

(* the positions of a run at which it calls the external model or has called
   it and has not yet saved *)
AfterLoad == UpToSave \ {"load"}

(* the first min(5, n) elements of xs, in their order *)
FirstFive(xs) == [j \in 1..(IF Len(xs) < 5 THEN Len(xs) ELSE 5) |-> xs[j]]

(* C21: when a run is given a project id whose state exists, the analyze call
   and every generate_file call of the run receive exactly the first
   min(5, n) stored variables and the first min(5, m) stored functions, in
   stored order, the same context for all calls of the run; when no project
   id is given or no state exists for it, no context is passed. *)
C21_ContinuityContext ==
    \A t \in Threads :
        /\ Len(th[t].ctxs) = th[t].model_calls
        /\ \A i \in 1..Len(th[t].ctxs) : th[t].ctxs[i] = th[t].ctxs[1]
        /\ (pc[t] \in AfterLoad /\ LatestRun(t)) =>
              \A i \in 1..Len(th[t].ctxs) :
                 IF th[t].proj_id \in ProjIds /\ th[t].proj_id \in DOMAIN db
                 THEN /\ th[t].ctxs[i].passed
                      /\ th[t].ctxs[i].variables =
                            FirstFive(json_loads(db[th[t].proj_id].variables))
                      /\ th[t].ctxs[i].functions =
                            FirstFive(json_loads(db[th[t].proj_id].functions))
                 ELSE th[t].ctxs[i] = NoCtx

(* a run given the id of a project that has more than five stored variables
   and functions has made its analyze call and a generate_file call, each with
   five of them *)
C21_Witness ==
    \E t \in Threads :
        /\ pc[t] = "update4"
        /\ th[t].proj_id \in ProjIds /\ th[t].proj_id \in DOMAIN db
        /\ Len(json_loads(db[th[t].proj_id].variables)) > 5
        /\ Len(json_loads(db[th[t].proj_id].functions)) > 5
        /\ Len(th[t].ctxs) >= 2
        /\ th[t].ctxs[1].passed
        /\ Len(th[t].ctxs[2].variables) = 5
        /\ Len(th[t].ctxs[2].functions) = 5

(* the deployment URL of a result is absent *)
NoUrl(r) == "deployment_url" \in DOMAIN r => r.deployment_url = ""

(* C22: with skip-deploy false the test hook is invoked before the deploy
   hook, and when either hook reports unavailable or failure the run still
   ends with success=true, with deployment_url absent when the deploy hook
   gave no URL; with skip-deploy true neither hook is invoked and
   deployment_url is absent. *)
C22_DeployTolerated ==
    [][\A t \in Threads :
         (pc[t] = "assemble" /\ pc'[t] = "finish_running") =>
            IF th[t].skip_tests
            THEN /\ th[t].hooks = <<>>
                 /\ NoUrl(results'[t])
            ELSE /\ Len(th[t].hooks) = 2
                 /\ th[t].hooks[1][1] = "run_tests"
                 /\ th[t].hooks[2][1] = "deploy"
                 /\ (th[t].hooks[1][2] # "True" \/ th[t].hooks[2][2] = "") =>
                        results'[t].success
                 /\ th[t].hooks[2][2] = "" => NoUrl(results'[t])
    ]_vars

(* run t went through the stages and returned a success result *)
OwnSuccess(t) == th[t].ret = t /\ results[t].made /\ results[t].success

(* the successful runs through the stages that were given the text req and
   no project id *)
RunsWithoutId(req) ==
    {u \in Threads : OwnSuccess(u) /\ th[u].arg_proj_id = NoProjId /\ th[u].req = req}

(* C23: when no project id is supplied the id saved under is a function of
   the requirements text alone: two successful runs through the stages with
   the same text and no project id save under the same id, and each appends
   a revision to that project's history instead of creating a new project;
   a supplied project id is used unchanged for the save and in the result. *)
C23_ProjectIdentity ==
    \A t \in Threads :
        OwnSuccess(t) =>
            LET pid == results[t].project_id IN
            /\ pid \in DOMAIN db
            /\ db[pid].id = pid
            /\ th[t].arg_proj_id # NoProjId => pid = th[t].arg_proj_id
            /\ th[t].arg_proj_id = NoProjId =>
                  /\ \A u \in RunsWithoutId(th[t].req) : results[u].project_id = pid
                  /\ Len(StoredHistory(pid)) >= Cardinality(RunsWithoutId(th[t].req))

(* two runs for the same text and no project id, made at different times,
   have both succeeded through the stages, and the project has two revisions *)
C23_Witness ==
    \E t, u \in Threads :
        /\ t # u
        /\ pc[t] = "done" /\ pc[u] = "done"
        /\ u \in RunsWithoutId(th[t].req) /\ t \in RunsWithoutId(th[t].req)
        /\ th[t].put_at # th[u].put_at
        /\ results[t].project_id = results[u].project_id
        /\ Len(StoredHistory(results[t].project_id)) = 2

(* the session's record is finished: running=false with a result *)
Published(sid) ==
    /\ sid \in DOMAIN progress_store
    /\ ~progress_store[sid].running
    /\ progress_store[sid].result # None

(* C24: once a session's progress record has running=false with a result,
   that result payload never changes afterwards: no later operation of any
   session or request, a request served from the cache for the same
   requirements text included, alters any field of it. *)
C24_PublishedResultFrozen ==
    [][\A sid \in Sids :
         Published(sid) =>
            results'[progress_store[sid].result] = results[progress_store[sid].result]
    ]_vars

(* C25: with caching enabled, among the runs for one requirements text that
   start within one TTL window at most one executes the stages and writes a
   project revision, however the concurrently started sessions interleave;
   the others are served from the cache: no two of them each return a result
   of their own making. *)
C25_OneRunPerWindow ==
    CACHE_ENABLED =>
        \A t, u \in Threads :
            (t # u /\ th[t].req = th[u].req /\ OwnSuccess(t) /\ OwnSuccess(u)) =>
                ~(th[t].db_writes = 1 /\ th[u].db_writes = 1)

(* the cache entry e holds a payload with success=true *)
HoldsSuccess(e) == (~e.isNone) /\ e.d # None /\ results[e.d].made /\ results[e.d].success

(* C26: every entry in the cache holds a payload with success=true, and a
   run that ends in a structured failure result never inserts or replaces a
   cache entry. *)
C26_CacheHoldsSuccesses ==
    [][/\ \A k \in DOMAIN cache_store' : HoldsSuccess(cache_store[k])'
       /\ \A t \in Threads :
            (pc[t] \in InRun /\ pc'[t] = "finish_running" /\ th'[t].ret = t
               /\ ~results'[t].success) => cache_store' = cache_store
    ]_vars

(* the project named in the payload of the cache entry e has a row with a
   non-empty history; an entry without a payload names none *)
EntryCommitted(e) ==
    (~e.isNone) =>
        /\ results[e.d].made
        /\ results[e.d].project_id \in DOMAIN db
        /\ Len(StoredHistory(results[e.d].project_id)) >= 1

(* C27: save precedes caching: for every cache entry, the project id named
   in its payload has a row in the store with a non-empty history; an entry
   is written only by a run whose revision has been committed, and a
   committed project row is never removed. *)
C27_SavePrecedesCaching ==
    [][/\ \A k \in DOMAIN cache_store' : EntryCommitted(cache_store[k])'
       /\ \A k \in DOMAIN cache_store' :
            (k \notin DOMAIN cache_store \/ cache_store'[k] # cache_store[k]) =>
                \E t \in Threads :
                    /\ pc[t] = "assemble" /\ pc'[t] = "finish_running"
                    /\ k = cache_key(th[t].req)
                    /\ th[t].db_writes = 1
                    /\ th[t].proj_id \in DOMAIN db
       /\ \A pid \in DOMAIN db :
            pid \in DOMAIN db' /\ Len(StoredHistory(pid)') >= 1
    ]_vars

(* a result is in the cache, its project has a row with a revision, and
   another run for a project of its own is on its way to the save *)
C27_Witness ==
    \E k \in DOMAIN cache_store : \E u \in Threads :
        /\ ~cache_store[k].isNone
        /\ EntryCommitted(cache_store[k])
        /\ pc[u] \in UpToSave
        /\ th[u].db_writes = 0
        /\ th[u].req # th[cache_store[k].d].req

(* C28: for every stored project, the row's latest code, variables and
   functions equal those of the last (newest) revision in its history, and
   the history is non-empty, however the saves interleave. *)
C28_RowMatchesNewestRevision ==
    \A pid \in DOMAIN db :
        LET row == load(pid)
            h == row.history
        IN  /\ Len(h) >= 1
            /\ h[Len(h)].code = row.code
            /\ h[Len(h)].variables = row.variables
            /\ h[Len(h)].functions = row.functions

(* overlapping saves have all completed: the project has several revisions,
   and the save that committed last is not the one that was called last *)
C28_Witness ==
    \E pid \in DOMAIN db :
        /\ \A t \in Threads : pc[t] = "idle"
        /\ Len(StoredHistory(pid)) >= 2
        /\ load(pid).code < nextTok[pid]
        /\ StoredHistory(pid)[Len(StoredHistory(pid))].code = load(pid).code

====
